---- MODULE Spec2Model ----
(***************************************************************************)
(* The TFTP service supervisor of QuantumXferBuilder (build_and_run.py):   *)
(* start_tftp_server / stop_tftp_server with their backend trial chain,    *)
(* the in-process fallback thread, setup_tftp_root and the test_tftp       *)
(* probe, and main() with the build flows it selects.  The operating       *)
(* system (spawn, signals, file system, sockets, npm commands) is the      *)
(* environment: each of its answers is an input of the action that asks    *)
(* for it.                                                                 *)
(***************************************************************************)
EXTENDS Integers, Sequences, FiniteSets, TLC

\* Bounds of the model.
MaxSpawns == 3      \* external processes one builder spawns in a run
MaxReplyLen == 3    \* bytes of a reply datagram that are modelled
MaxRetCode == 2     \* largest return code of an npm command

\* ------------------------------------------------------------------ values

\* self.tftp_process: None, the sentinel string, or a Popen object.
None == [kind |-> "None", pid |-> 0]
python_thread == [kind |-> "python_thread", pid |-> 0]
PopenHandle(p) == [kind |-> "Popen", pid |-> p]

Pids == 1..MaxSpawns
Handles == {None, python_thread} \cup {PopenHandle(p) : p \in Pids}

\* The commands the trial chain spawns, and how a spawn can end.
Candidates == {"dnsmasq", "atftpd", "tftpy"}
SpawnOutcomes == {"ok", "FileNotFoundError", "OSError"}

\* Where the file system can fail during setup_tftp_root (at most one fault
\* per call).
FsFaults == {"none", "mkdir", "write_test", "write_readme"}

\* Bytes that matter to the probe: 0, and the opcodes RRQ, DATA, ERROR.
Bytes == {0, 1, 3, 5}
ProbeOutcomes == {"socket_error", "send_error", "timeout", "recv_error", "reply"}

Call(c, a, o) == [call |-> c, arg |-> a, out |-> o]

VARIABLES
    is_windows,    \* self.is_windows
    tftp_process,  \* self.tftp_process
    procs,         \* pid -> "unborn" | "running" | "exited"
    thread,        \* the fallback thread: "none" | "started" | "listening" | "bind_failed"
    fs,            \* tftp_root: its kind and the files in it
    net,           \* what the network answers to the probe
    lastOp,        \* the last builder method that returned (or raised)
    lastResult,    \* "True" | "False" | "None" | "raised"
    lastCalls,     \* the environment calls that method made, in order
    preHandle,     \* self.tftp_process when that method was entered
    pc,            \* where main() stands ("off": main is not running)
    args,          \* the parsed command line of main()
    steps,         \* the build steps main() has gone through, in order
    pending,       \* how the selected flow ended: a return value or an exception
    tftp_started,  \* main's local variable of that name
    stopCalls,     \* how often main() has called stop_tftp_server()
    exitCode       \* what main() returned (-1 until it returns)

mainVars == <<pc, args, steps, pending, tftp_started, stopCalls, exitCode>>

vars == <<is_windows, tftp_process, procs, thread, fs, net,
          lastOp, lastResult, lastCalls, preHandle,
          pc, args, steps, pending, tftp_started, stopCalls, exitCode>>

\* ------------------------------------------------------------------ setup

\* setup_tftp_root without the exists() tests: both files are written at
\* every call.
setup_tftp_root_overwrite(f, fault) ==
    LET mkdirOut == IF f.root = "file" THEN "FileExistsError"
                    ELSE IF f.root = "dir" THEN "ok"
                    ELSE IF fault = "mkdir" THEN "OSError" ELSE "ok"
        f1 == IF mkdirOut = "ok" THEN [f EXCEPT !.root = "dir"] ELSE f
        c1 == <<Call("mkdir", "tftp_root", mkdirOut)>>
        testOut == IF fault = "write_test" THEN "OSError" ELSE "ok"
        f2 == IF testOut = "ok"
              THEN [f1 EXCEPT !.test_file = "sample_test"] ELSE f1
        c2 == c1 \o <<Call("write_text", "test_file.txt", testOut)>>
        readmeOut == IF fault = "write_readme" THEN "OSError" ELSE "ok"
        f3 == IF readmeOut = "ok"
              THEN [f2 EXCEPT !.README = "sample_readme"] ELSE f2
        c3 == c2 \o <<Call("write_text", "README.txt", readmeOut)>>
    IN  IF mkdirOut # "ok"
        THEN [fs |-> f1, calls |-> c1, raised |-> TRUE]
        ELSE IF testOut # "ok"
        THEN [fs |-> f2, calls |-> c2, raised |-> TRUE]
        ELSE IF readmeOut # "ok"
        THEN [fs |-> f3, calls |-> c3, raised |-> TRUE]
        ELSE [fs |-> f3, calls |-> c3, raised |-> FALSE]

\* setup_tftp_root: mkdir(exist_ok=True), then each sample file is written
\* if it does not exist.  An exception ends the method where it is raised.
setup_tftp_root(f, fault) ==
    LET mkdirOut == IF f.root = "file" THEN "FileExistsError"
                    ELSE IF f.root = "dir" THEN "ok"
                    ELSE IF fault = "mkdir" THEN "OSError" ELSE "ok"
        f1 == IF mkdirOut = "ok" THEN [f EXCEPT !.root = "dir"] ELSE f
        c1 == <<Call("mkdir", "tftp_root", mkdirOut)>>
        testOut == IF fault = "write_test" THEN "OSError" ELSE "ok"
        f2 == IF f1.test_file = "absent" /\ testOut = "ok"
              THEN [f1 EXCEPT !.test_file = "sample_test"] ELSE f1
        c2 == IF f1.test_file = "absent"
              THEN c1 \o <<Call("write_text", "test_file.txt", testOut)>> ELSE c1
        readmeOut == IF fault = "write_readme" THEN "OSError" ELSE "ok"
        f3 == IF f2.README = "absent" /\ readmeOut = "ok"
              THEN [f2 EXCEPT !.README = "sample_readme"] ELSE f2
        c3 == IF f2.README = "absent"
              THEN c2 \o <<Call("write_text", "README.txt", readmeOut)>> ELSE c2
    IN  IF mkdirOut # "ok"
        THEN [fs |-> f1, calls |-> c1, raised |-> TRUE]
        ELSE IF f1.test_file = "absent" /\ testOut # "ok"
        THEN [fs |-> f2, calls |-> c2, raised |-> TRUE]
        ELSE IF f2.README = "absent" /\ readmeOut # "ok"
        THEN [fs |-> f3, calls |-> c3, raised |-> TRUE]
        ELSE [fs |-> f3, calls |-> c3, raised |-> FALSE]

\* ------------------------------------------------------------ trial chain

\* What a step of the chain leaves behind: the value assigned to
\* self.tftp_process (None when nothing was assigned), the calls made, the
\* exception that leaves the method ("none" when it returns), and whether a
\* process was spawned or the fallback thread was started.
Outcome(h, cs, e) ==
    [handle |-> h, calls |-> cs, exc |-> e,
     spawned |-> (h.kind = "Popen"), threaded |-> (h.kind = "python_thread")]

\* subprocess.Popen([cmd, ...]) as the environment answers it.
Popen(cmd, sp) == Call("Popen", cmd, sp[cmd])

\* What follows when the chain goes on after its own calls.
Then(cs, rest) == [rest EXCEPT !.calls = cs \o rest.calls]

\* _start_python_tftp_server that starts the thread and does not store the
\* sentinel.
_start_python_tftp_server_no_sentinel(imp) ==
    IF ~imp
    THEN Outcome(None, <<Call("import", "tftpy", "ImportError")>>, "ImportError")
    ELSE [Outcome(None,
                  <<Call("import", "tftpy", "ok"),
                    Call("Thread.start", "run_tftp", "ok")>>, "none")
              EXCEPT !.threaded = TRUE]

\* _start_python_tftp_server: import tftpy or raise ImportError; then start
\* the daemon thread and store the sentinel.  The thread body (run_tftp)
\* runs on its own: see the action run_tftp.
_start_python_tftp_server(imp) ==
    IF ~imp
    THEN Outcome(None, <<Call("import", "tftpy", "ImportError")>>, "ImportError")
    ELSE Outcome(python_thread,
                 <<Call("import", "tftpy", "ok"),
                   Call("Thread.start", "run_tftp", "ok")>>, "none")

\* _start_tftp_windows: "python -m tftpy"; only FileNotFoundError is
\* handled, any other exception of the spawn leaves the method.
_start_tftp_windows(sp, imp, pid) ==
    IF sp["tftpy"] = "ok"
    THEN Outcome(PopenHandle(pid), <<Popen("tftpy", sp)>>, "none")
    ELSE IF sp["tftpy"] # "FileNotFoundError"
    THEN Outcome(None, <<Popen("tftpy", sp)>>, sp["tftpy"])
    ELSE Then(<<Popen("tftpy", sp)>>, _start_python_tftp_server(imp))

\* _start_tftp_unix with a handler for every exception of a spawn.
_start_tftp_unix_catch_all(sp, imp, pid) ==
    IF sp["dnsmasq"] = "ok"
    THEN Outcome(PopenHandle(pid), <<Popen("dnsmasq", sp)>>, "none")
    ELSE IF sp["atftpd"] = "ok"
    THEN Outcome(PopenHandle(pid),
                 <<Popen("dnsmasq", sp), Popen("atftpd", sp)>>, "none")
    ELSE Then(<<Popen("dnsmasq", sp), Popen("atftpd", sp)>>,
              _start_python_tftp_server(imp))

\* _start_tftp_unix with the two candidates in the other order.
_start_tftp_unix_atftpd_first(sp, imp, pid) ==
    IF sp["atftpd"] = "ok"
    THEN Outcome(PopenHandle(pid), <<Popen("atftpd", sp)>>, "none")
    ELSE IF sp["atftpd"] # "FileNotFoundError"
    THEN Outcome(None, <<Popen("atftpd", sp)>>, sp["atftpd"])
    ELSE IF sp["dnsmasq"] = "ok"
    THEN Outcome(PopenHandle(pid),
                 <<Popen("atftpd", sp), Popen("dnsmasq", sp)>>, "none")
    ELSE IF sp["dnsmasq"] # "FileNotFoundError"
    THEN Outcome(None, <<Popen("atftpd", sp), Popen("dnsmasq", sp)>>,
                 sp["dnsmasq"])
    ELSE Then(<<Popen("atftpd", sp), Popen("dnsmasq", sp)>>,
              _start_python_tftp_server(imp))

\* _start_tftp_unix: dnsmasq, then atftpd, then the fallback; only
\* FileNotFoundError is handled.
_start_tftp_unix(sp, imp, pid) ==
    IF sp["dnsmasq"] = "ok"
    THEN Outcome(PopenHandle(pid), <<Popen("dnsmasq", sp)>>, "none")
    ELSE IF sp["dnsmasq"] # "FileNotFoundError"
    THEN Outcome(None, <<Popen("dnsmasq", sp)>>, sp["dnsmasq"])
    ELSE IF sp["atftpd"] = "ok"
    THEN Outcome(PopenHandle(pid),
                 <<Popen("dnsmasq", sp), Popen("atftpd", sp)>>, "none")
    ELSE IF sp["atftpd"] # "FileNotFoundError"
    THEN Outcome(None, <<Popen("dnsmasq", sp), Popen("atftpd", sp)>>,
                 sp["atftpd"])
    ELSE Then(<<Popen("dnsmasq", sp), Popen("atftpd", sp)>>,
              _start_python_tftp_server(imp))

\* -------------------------------------------------------------- start

\* What one call of start_tftp_server does: its return value ("raised" when
\* an exception leaves it), self.tftp_process and the file system
\* afterwards, and the calls it made.
Started(res, h, f, cs, sp, th) ==
    [result |-> res, handle |-> h, fs |-> f, calls |-> cs,
     spawned |-> sp, threaded |-> th]

\* The body of start_tftp_server after the "already running" test.
start_attempt(h, win, f, fault, sp, imp, pid) ==
    LET s == setup_tftp_root(f, fault)
        c == IF win THEN _start_tftp_windows(sp, imp, pid)
                    ELSE _start_tftp_unix(sp, imp, pid)
    IN  IF s.raised
        THEN Started("raised", h, s.fs, s.calls, FALSE, FALSE)
        ELSE IF c.exc = "none"
        THEN Started("True", c.handle, s.fs,
                     s.calls \o c.calls \o <<Call("sleep", "1", "ok")>>,
                     c.spawned, c.threaded)
        ELSE Started("False", h, s.fs, s.calls \o c.calls, FALSE, FALSE)

\* start_tftp_server without the "already running" test.
start_tftp_server_no_guard(h, win, f, fault, sp, imp, pid) ==
    start_attempt(h, win, f, fault, sp, imp, pid)

\* start_tftp_server.
start_tftp_server_result(h, win, f, fault, sp, imp, pid) ==
    IF h # None
    THEN Started("True", h, f, <<>>, FALSE, FALSE)
    ELSE start_attempt(h, win, f, fault, sp, imp, pid)

\* --------------------------------------------------------------- stop

\* What one call of stop_tftp_server does: self.tftp_process afterwards,
\* the calls it made, whether the process ended during the call, and what
\* the call returned ("raised" when an exception leaves it).
Stopped(h, cs, ex) ==
    [handle |-> h, calls |-> cs, exited |-> ex, result |-> "None"]

\* stop_tftp_server that clears the handle of the fallback thread as well.
stop_tftp_server_clear_thread(h, termOut, waitOut) ==
    IF h = None \/ h = python_thread
    THEN Stopped(None, <<>>, FALSE)
    ELSE IF termOut # "ok"
    THEN Stopped(None, <<Call("terminate", "Popen", termOut)>>, FALSE)
    ELSE Stopped(None,
                 <<Call("terminate", "Popen", "ok"),
                   Call("wait", "5", waitOut)>>, waitOut = "exited")

\* stop_tftp_server that joins the fallback thread before it returns.
stop_tftp_server_join_thread(h, termOut, waitOut) ==
    IF h = None
    THEN Stopped(None, <<>>, FALSE)
    ELSE IF h = python_thread
    THEN Stopped(python_thread, <<Call("join", "Thread", "ok")>>, FALSE)
    ELSE IF termOut # "ok"
    THEN Stopped(None, <<Call("terminate", "Popen", termOut)>>, FALSE)
    ELSE Stopped(None,
                 <<Call("terminate", "Popen", "ok"),
                   Call("wait", "5", waitOut)>>, waitOut = "exited")

\* stop_tftp_server without the except clause: the finally clause clears
\* the handle and the exception of terminate() or wait() goes on.
stop_tftp_server_no_except(h, termOut, waitOut) ==
    IF h = None
    THEN Stopped(None, <<>>, FALSE)
    ELSE IF h = python_thread
    THEN Stopped(python_thread, <<>>, FALSE)
    ELSE IF termOut # "ok"
    THEN [Stopped(None, <<Call("terminate", "Popen", termOut)>>, FALSE)
              EXCEPT !.result = "raised"]
    ELSE [Stopped(None,
                  <<Call("terminate", "Popen", "ok"),
                    Call("wait", "5", waitOut)>>, waitOut = "exited")
              EXCEPT !.result = IF waitOut = "exited" THEN "None" ELSE "raised"]

\* stop_tftp_server without the test for None: None.terminate() raises
\* AttributeError, which the except clause handles.
stop_tftp_server_no_none_guard(h, termOut, waitOut) ==
    IF h = python_thread
    THEN Stopped(python_thread, <<>>, FALSE)
    ELSE IF h = None
    THEN Stopped(None, <<Call("terminate", "None", "AttributeError")>>, FALSE)
    ELSE IF termOut # "ok"
    THEN Stopped(None, <<Call("terminate", "Popen", termOut)>>, FALSE)
    ELSE Stopped(None,
                 <<Call("terminate", "Popen", "ok"),
                   Call("wait", "5", waitOut)>>, waitOut = "exited")

\* stop_tftp_server: nothing without a handle; nothing but a message for
\* the fallback thread, whose sentinel stays; for a process terminate(),
\* then wait(timeout=5), any exception of the two handled, and the handle
\* cleared in the finally clause.
stop_tftp_server_result(h, termOut, waitOut) ==
    IF h = None
    THEN Stopped(None, <<>>, FALSE)
    ELSE IF h = python_thread
    THEN Stopped(python_thread, <<>>, FALSE)
    ELSE IF termOut # "ok"
    THEN Stopped(None, <<Call("terminate", "Popen", termOut)>>, FALSE)
    ELSE Stopped(None,
                 <<Call("terminate", "Popen", "ok"),
                   Call("wait", "5", waitOut)>>, waitOut = "exited")

\* --------------------------------------------------------------- probe

DATA == <<0, 3>>    \* b'\x00\x03'

\* The datagrams recvfrom can return.
Replies == UNION {[1..n -> Bytes] : n \in 0..MaxReplyLen}

\* data[:2]
Slice2(data) == SubSeq(data, 1, IF Len(data) < 2 THEN Len(data) ELSE 2)

\* test_tftp that looks at the low byte of the opcode only.
test_tftp_low_byte(outcome, data) ==
    IF outcome = "reply"
    THEN (IF Len(data) >= 2 /\ data[2] = 3 THEN "True" ELSE "False")
    ELSE "False"

\* test_tftp: True when the reply starts with the DATA opcode; False for
\* any other reply, for socket.timeout and for any other exception.
test_tftp_result(outcome, data) ==
    IF outcome = "reply"
    THEN (IF Slice2(data) = DATA THEN "True" ELSE "False")
    ELSE IF outcome = "timeout" THEN "False"
    ELSE "False"

\* ------------------------------------------------------------- actions

Spawned == {p \in Pids : procs[p] # "unborn"}
Running == {p \in Pids : procs[p] = "running"}
NextPid == Cardinality(Spawned) + 1

\* One call of start_tftp_server().
start_tftp_server_call ==
    \E fault \in FsFaults, sp \in [Candidates -> SpawnOutcomes], imp \in BOOLEAN :
        LET r == start_tftp_server_result(tftp_process, is_windows, fs,
                                          fault, sp, imp, NextPid)
        IN  /\ r.spawned => NextPid <= MaxSpawns
            /\ tftp_process' = r.handle
            /\ fs' = r.fs
            /\ procs' = IF r.spawned
                        THEN [procs EXCEPT ![r.handle.pid] = "running"]
                        ELSE procs
            /\ thread' = IF r.threaded THEN "started" ELSE thread
            /\ lastOp' = "start"
            /\ lastResult' = r.result
            /\ lastCalls' = r.calls
            /\ preHandle' = tftp_process
            /\ UNCHANGED <<is_windows, net>>

start_tftp_server == start_tftp_server_call /\ UNCHANGED mainVars

\* One call of stop_tftp_server().  A process that has already exited
\* takes terminate() and wait() without error.
stop_tftp_server_call ==
    \E termOut \in {"ok", "OSError"}, waitOut \in {"exited", "TimeoutExpired", "OSError"} :
        LET r == stop_tftp_server_result(tftp_process, termOut, waitOut)
        IN  /\ (tftp_process.kind = "Popen" /\ procs[tftp_process.pid] = "exited")
                => (termOut = "ok" /\ waitOut = "exited")
            /\ tftp_process' = r.handle
            /\ procs' = IF r.exited
                        THEN [procs EXCEPT ![tftp_process.pid] = "exited"]
                        ELSE procs
            /\ lastOp' = "stop"
            /\ lastResult' = r.result
            /\ lastCalls' = r.calls
            /\ preHandle' = tftp_process
            /\ UNCHANGED <<is_windows, thread, fs, net>>

stop_tftp_server == stop_tftp_server_call /\ UNCHANGED mainVars

\* The thread body run_tftp: TftpServer(root).listen("127.0.0.1", port)
\* binds the port or raises, which ends the thread.
run_tftp ==
    /\ thread = "started"
    /\ \E bound \in BOOLEAN :
           thread' = IF bound THEN "listening" ELSE "bind_failed"
    /\ UNCHANGED <<is_windows, tftp_process, procs, fs, net,
                   lastOp, lastResult, lastCalls, preHandle>>
    /\ UNCHANGED mainVars

\* A spawned process ends by itself.
ProcExit ==
    \E p \in Running :
        /\ procs' = [procs EXCEPT ![p] = "exited"]
        /\ UNCHANGED <<is_windows, tftp_process, thread, fs, net,
                       lastOp, lastResult, lastCalls, preHandle>>
        /\ UNCHANGED mainVars

\* One call of test_tftp().
test_tftp ==
    /\ lastOp' = "test_tftp"
    /\ lastResult' = test_tftp_result(net.outcome, net.data)
    /\ lastCalls' = <<Call("sendto", "RRQ", net.outcome)>>
    /\ preHandle' = tftp_process
    /\ UNCHANGED <<is_windows, tftp_process, procs, thread, fs, net>>
    /\ UNCHANGED mainVars

\* ---------------------------------------------------------------- main

\* How a call ends: it returns a value or raises.  (check_node_npm returns
\* a bool: True is 1, False is 0.)
Ret(n) == [kind |-> "return", code |-> n, exc |-> "none"]
Raise(e) == [kind |-> "raise", code |-> 0, exc |-> e]

\* How subprocess.run(cmd) can end: the command's return code, or an
\* exception (the executable is missing, another OS error, Ctrl-C).
StepOuts ==
    {[kind |-> "rc", rc |-> n] : n \in 0..MaxRetCode}
    \cup {[kind |-> k, rc |-> 0] :
              k \in {"FileNotFoundError", "OSError", "KeyboardInterrupt"}}

\* run_command: the return code of the command; FileNotFoundError is
\* handled and gives 1; any other exception goes on.
run_command(out) ==
    IF out.kind = "rc" THEN Ret(out.rc)
    ELSE IF out.kind = "FileNotFoundError" THEN Ret(1)
    ELSE Raise(out.kind)

\* check_node_npm: subprocess.run([npm, "--version"]) without a handler;
\* False when the return code is not 0.
check_node_npm(out) ==
    IF out.kind = "rc" THEN (IF out.rc # 0 THEN Ret(0) ELSE Ret(1))
    ELSE Raise(out.kind)

\* install_dependencies, build_web_assets: 0 without running anything when
\* the skip flag is set.
install_dependencies(skip, out) == IF skip THEN Ret(0) ELSE run_command(out)
build_web_assets(skip, out) == IF skip THEN Ret(0) ELSE run_command(out)
run_electron(out) == run_command(out)

\* Where a flow goes after a step: on to the next step, or to its end with
\* what it returns or raises.
Goto(pos) == [next |-> pos, pending |-> [kind |-> "none", code |-> 0, exc |-> "none"]]
Finish(res) == [next |-> "finally", pending |-> res]

\* build_and_run that goes on to the build when the install failed.
build_and_run_ignore_install(pos, res) ==
    IF res.kind = "raise" THEN Finish(res)
    ELSE IF pos = "check"
    THEN (IF res.code = 0 THEN Finish(Ret(1)) ELSE Goto("install"))
    ELSE IF pos = "install"
    THEN Goto("build")
    ELSE IF pos = "build"
    THEN (IF res.code # 0 THEN Finish(Ret(1)) ELSE Goto("electron"))
    ELSE Finish(res)

\* build_and_run that returns 1 when the Electron run failed.
build_and_run_normalised(pos, res) ==
    IF res.kind = "raise" THEN Finish(res)
    ELSE IF pos = "check"
    THEN (IF res.code = 0 THEN Finish(Ret(1)) ELSE Goto("install"))
    ELSE IF pos = "install"
    THEN (IF res.code # 0 THEN Finish(Ret(1)) ELSE Goto("build"))
    ELSE IF pos = "build"
    THEN (IF res.code # 0 THEN Finish(Ret(1)) ELSE Goto("electron"))
    ELSE Finish(IF res.code # 0 THEN Ret(1) ELSE Ret(0))

\* build_and_run: check, install, build, each ending the method with 1
\* when it fails; then the return value of run_electron.
build_and_run(pos, res) ==
    IF res.kind = "raise" THEN Finish(res)
    ELSE IF pos = "check"
    THEN (IF res.code = 0 THEN Finish(Ret(1)) ELSE Goto("install"))
    ELSE IF pos = "install"
    THEN (IF res.code # 0 THEN Finish(Ret(1)) ELSE Goto("build"))
    ELSE IF pos = "build"
    THEN (IF res.code # 0 THEN Finish(Ret(1)) ELSE Goto("electron"))
    ELSE Finish(res)

\* package_app: build_web_assets, 1 when it fails; then the return value
\* of the packaging command.
package_app(pos, res) ==
    IF res.kind = "raise" THEN Finish(res)
    ELSE IF pos = "build"
    THEN (IF res.code # 0 THEN Finish(Ret(1)) ELSE Goto("package"))
    ELSE Finish(res)

\* main, --build-only: check, install, each ending main with 1 when it
\* fails; then the return value of build_web_assets.
build_only(pos, res) ==
    IF res.kind = "raise" THEN Finish(res)
    ELSE IF pos = "check"
    THEN (IF res.code = 0 THEN Finish(Ret(1)) ELSE Goto("install"))
    ELSE IF pos = "install"
    THEN (IF res.code # 0 THEN Finish(Ret(1)) ELSE Goto("build"))
    ELSE Finish(res)

\* main, --run-only: the return value of run_electron.
run_only(pos, res) == Finish(res)

\* The if / elif chain of main that selects the flow.
selected_flow(a) ==
    IF a.package THEN "package"
    ELSE IF a.build_only THEN "build_only"
    ELSE IF a.run_only THEN "run_only"
    ELSE "build_and_run"

\* The first step of each flow.
first_step(flow) ==
    IF flow = "package" THEN "build"
    ELSE IF flow = "run_only" THEN "electron"
    ELSE "check"

\* The step at a position, as the builder runs it.
run_step(pos, a, out) ==
    IF pos = "check" THEN check_node_npm(out)
    ELSE IF pos = "install" THEN install_dependencies(a.skip_install, out)
    ELSE IF pos = "build" THEN build_web_assets(a.skip_build, out)
    ELSE IF pos = "electron" THEN run_electron(out)
    ELSE run_command(out)

\* Whether the step at a position runs a command at all.
runs_command(pos, a) ==
    ~ \/ (pos = "install" /\ a.skip_install)
      \/ (pos = "build" /\ a.skip_build)

\* The selected flow after one of its steps.
flow_after(flow, pos, res) ==
    IF flow = "package" THEN package_app(pos, res)
    ELSE IF flow = "build_only" THEN build_only(pos, res)
    ELSE IF flow = "run_only" THEN run_only(pos, res)
    ELSE build_and_run(pos, res)

\* The except clauses of main: what main returns for the way its body
\* ended.
main_returns(res) ==
    IF res.kind = "return" THEN res.code
    ELSE IF res.exc = "FileNotFoundError" THEN 1
    ELSE IF res.exc = "KeyboardInterrupt" THEN 130
    ELSE 1

\* A clean-up written after the flow instead of in a finally clause: it is
\* skipped when the flow raises.
cleanup_on_return_only(started, res) == started /\ res.kind = "return"

\* The finally clause of main: stop_tftp_server() is called when the
\* start returned True, however the flow ended.
cleanup_stops(started, res) == started

StepNames == {"check", "install", "build", "electron", "package"}

\* main constructs the builder: FileNotFoundError when package.json is
\* missing; then --test-tftp, --with-tftp, or the flow.
main_construct ==
    /\ pc = "begin"
    /\ \E pkg \in BOOLEAN :
           IF ~pkg
           THEN /\ pc' = "done"
                /\ pending' = Raise("FileNotFoundError")
                /\ exitCode' = main_returns(Raise("FileNotFoundError"))
           ELSE /\ pc' = IF args.test_tftp THEN "probe"
                         ELSE IF args.with_tftp THEN "start"
                         ELSE first_step(selected_flow(args))
                /\ UNCHANGED <<pending, exitCode>>
    /\ UNCHANGED <<is_windows, tftp_process, procs, thread, fs, net,
                   lastOp, lastResult, lastCalls, preHandle,
                   args, steps, tftp_started, stopCalls>>

\* main, --test-tftp: return 0 if builder.test_tftp() else 1.
main_test_tftp ==
    /\ pc = "probe"
    /\ \E o \in ProbeOutcomes, d \in Replies :
           net' = [outcome |-> o, data |-> IF o = "reply" THEN d ELSE <<>>]
    /\ lastOp' = "test_tftp"
    /\ lastResult' = test_tftp_result(net'.outcome, net'.data)
    /\ lastCalls' = <<Call("sendto", "RRQ", net'.outcome)>>
    /\ preHandle' = tftp_process
    /\ pending' = Ret(IF lastResult' = "True" THEN 0 ELSE 1)
    /\ exitCode' = main_returns(pending')
    /\ pc' = "done"
    /\ UNCHANGED <<is_windows, tftp_process, procs, thread, fs,
                   args, steps, tftp_started, stopCalls>>

\* main, --with-tftp: tftp_started = builder.start_tftp_server().  An
\* exception of the call reaches the except clauses of main at once.
main_start_tftp ==
    /\ pc = "start"
    /\ start_tftp_server_call
    /\ IF lastResult' = "raised"
       THEN /\ pc' = "done"
            /\ pending' = Raise("OSError")
            /\ exitCode' = main_returns(Raise("OSError"))
            /\ UNCHANGED tftp_started
       ELSE /\ pc' = first_step(selected_flow(args))
            /\ tftp_started' = (lastResult' = "True")
            /\ UNCHANGED <<pending, exitCode>>
    /\ UNCHANGED <<args, steps, stopCalls>>

\* One step of the selected flow.
main_step ==
    /\ pc \in StepNames
    /\ \E out \in StepOuts :
           LET res == run_step(pc, args, out)
               nx == flow_after(selected_flow(args), pc, res)
           IN  /\ runs_command(pc, args) \/ out = [kind |-> "rc", rc |-> 0]
               /\ steps' = Append(steps, [step |-> pc,
                                          ran |-> runs_command(pc, args),
                                          res |-> res])
               /\ pc' = nx.next
               /\ pending' = nx.pending
    /\ UNCHANGED <<is_windows, tftp_process, procs, thread, fs, net,
                   lastOp, lastResult, lastCalls, preHandle,
                   args, tftp_started, stopCalls, exitCode>>

\* The finally clause with a server to stop, then the return of main.
main_finally_stop ==
    /\ pc = "finally"
    /\ cleanup_stops(tftp_started, pending)
    /\ stop_tftp_server_call
    /\ stopCalls' = stopCalls + 1
    /\ exitCode' = main_returns(pending)
    /\ pc' = "done"
    /\ UNCHANGED <<args, steps, pending, tftp_started>>

\* The finally clause with nothing to stop, then the return of main.
main_finally_skip ==
    /\ pc = "finally"
    /\ ~cleanup_stops(tftp_started, pending)
    /\ exitCode' = main_returns(pending)
    /\ pc' = "done"
    /\ UNCHANGED <<is_windows, tftp_process, procs, thread, fs, net,
                   lastOp, lastResult, lastCalls, preHandle,
                   args, steps, pending, tftp_started, stopCalls>>

\* ------------------------------------------------------- specifications

Contents == {"absent", "user"}

\* tftp_root before the first call: missing, a plain file of that name, or
\* a directory holding any of the files.
InitFs ==
    {[root |-> "absent", test_file |-> "absent", README |-> "absent", other |-> "absent"],
     [root |-> "file", test_file |-> "absent", README |-> "absent", other |-> "absent"]}
    \cup {[root |-> "dir", test_file |-> a, README |-> b, other |-> c] :
              a \in Contents, b \in Contents, c \in Contents}

\* __init__: no handle.
InitBuilder ==
    /\ is_windows \in BOOLEAN
    /\ tftp_process = None
    /\ procs = [p \in Pids |-> "unborn"]
    /\ thread = "none"
    /\ fs \in InitFs
    /\ lastOp = "none"
    /\ lastResult = "None"
    /\ lastCalls = <<>>
    /\ preHandle = None

\* main() is not running.
NoArgs ==
    [test_tftp |-> FALSE, with_tftp |-> FALSE, package |-> FALSE,
     build_only |-> FALSE, run_only |-> FALSE,
     skip_install |-> FALSE, skip_build |-> FALSE]
NoResult == [kind |-> "none", code |-> 0, exc |-> "none"]
MainOff ==
    /\ pc = "off"
    /\ args = NoArgs
    /\ steps = <<>>
    /\ pending = NoResult
    /\ tftp_started = FALSE
    /\ stopCalls = 0
    /\ exitCode = -1

Init ==
    /\ InitBuilder
    /\ MainOff
    /\ net = [outcome |-> "timeout", data |-> <<>>]

Next == start_tftp_server \/ stop_tftp_server \/ run_tftp \/ ProcExit

Spec == Init /\ [][Next]_vars

\* The probe against every answer of the network.
InitProbe ==
    /\ InitBuilder
    /\ MainOff
    /\ \E o \in ProbeOutcomes, d \in Replies :
           net = [outcome |-> o, data |-> IF o = "reply" THEN d ELSE <<>>]

NextProbe == test_tftp

SpecProbe == InitProbe /\ [][NextProbe]_vars

\* main() on a fresh builder, for every command line and every tftp_root.
InitMain ==
    /\ is_windows \in BOOLEAN
    /\ tftp_process = None
    /\ procs = [p \in Pids |-> "unborn"]
    /\ thread = "none"
    /\ fs \in InitFs
    /\ net = [outcome |-> "timeout", data |-> <<>>]
    /\ lastOp = "none"
    /\ lastResult = "None"
    /\ lastCalls = <<>>
    /\ preHandle = None
    /\ pc = "begin"
    /\ args \in [test_tftp : BOOLEAN, with_tftp : BOOLEAN, package : BOOLEAN,
                 build_only : BOOLEAN, run_only : BOOLEAN,
                 skip_install : BOOLEAN, skip_build : BOOLEAN]
    /\ steps = <<>>
    /\ pending = NoResult
    /\ tftp_started = FALSE
    /\ stopCalls = 0
    /\ exitCode = -1

NextMain ==
    \/ main_construct
    \/ main_test_tftp
    \/ main_start_tftp
    \/ main_step
    \/ main_finally_stop
    \/ main_finally_skip

SpecMain == InitMain /\ [][NextMain]_vars

\* --------------------------------------------------------------- claims

\* The external candidates of the host OS, in the order of the chain.
HostCandidates == IF is_windows THEN <<"tftpy">> ELSE <<"dnsmasq", "atftpd">>

Made(c) == \E i \in 1..Len(lastCalls) : lastCalls[i].call = c
MadeCall(c, a, o) == \E i \in 1..Len(lastCalls) : lastCalls[i] = Call(c, a, o)
EveryCandidateNotFound ==
    \A k \in 1..Len(HostCandidates) :
        MadeCall("Popen", HostCandidates[k], "FileNotFoundError")
EveryCandidateAttempted ==
    \A k \in 1..Len(HostCandidates) :
        \E i \in 1..Len(lastCalls) :
            lastCalls[i].call = "Popen" /\ lastCalls[i].arg = HostCandidates[k]
ThreadAlive == thread \in {"started", "listening"}

TypeOK ==
    /\ is_windows \in BOOLEAN
    /\ tftp_process \in Handles
    /\ preHandle \in Handles
    /\ procs \in [Pids -> {"unborn", "running", "exited"}]
    /\ thread \in {"none", "started", "listening", "bind_failed"}
    /\ lastOp \in {"none", "start", "stop", "test_tftp"}
    /\ lastResult \in {"True", "False", "None", "raised"}

\* C1: a start_tftp_server() entered with a live handle returns True, makes
\* no call at all (no spawn, no thread start, no file-system call) and
\* leaves the handle as it was.
C1_StartWhileLiveIsNoOp ==
    (lastOp = "start" /\ preHandle # None)
        => /\ lastResult = "True"
           /\ lastCalls = <<>>
           /\ tftp_process = preHandle

C1_Witness ==
    /\ lastOp = "start"
    /\ preHandle.kind = "Popen"
    /\ tftp_process = preHandle
    /\ lastResult = "True"

\* C2: at most one service instance launched by the builder (external
\* process or fallback thread) is running, whatever calls were made.
C2_AtMostOneInstanceRunning ==
    Cardinality(Running) + (IF ThreadAlive THEN 1 ELSE 0) <= 1

\* C3: a start with no live handle in which every external candidate of the
\* host OS was not found attempts the fallback, and (once the thread's bind
\* is decided) it has returned True with the in-process handle exactly when
\* the bind succeeded.
C3_FallbackSucceedsIffBound ==
    (lastOp = "start" /\ preHandle = None /\ EveryCandidateNotFound
        /\ thread # "started")
        => /\ Made("import")
           /\ (lastResult = "True" /\ tftp_process = python_thread)
                  <=> thread = "listening"

\* C4: a stop of an external process whose wait(timeout=5) timed out has
\* issued a kill on it, and the handle is None.
C4_TimeoutEscalatesToKill ==
    (lastOp = "stop" /\ preHandle.kind = "Popen"
        /\ MadeCall("wait", "5", "TimeoutExpired"))
        => Made("kill") /\ tftp_process = None

\* C5 as stated: after stop_tftp_server() returned, the handle is None,
\* whichever variant was live.
C5_HandleNoneAfterStop ==
    lastOp = "stop" => tftp_process = None

\* C5 as amended: after stop_tftp_server() returned, the handle is None
\* unless the fallback thread's sentinel was live, which stays; and a start
\* makes a fresh attempt (calls beginning with setup_tftp_root) exactly when
\* it is entered with no handle, so after stopping an external process a
\* start attempts anew, after "stopping" the thread it reports "already
\* running".
C5_HandleAfterStop ==
    /\ lastOp = "stop"
           => tftp_process = (IF preHandle = python_thread
                              THEN python_thread ELSE None)
    /\ lastOp = "start"
           => ((preHandle = None) <=> Made("mkdir"))

C5_Witness ==
    /\ lastOp = "stop"
    /\ preHandle = python_thread
    /\ tftp_process = python_thread

\* C6: start_tftp_server() never raises: every call of it returns True or
\* False.
C6_StartNeverRaises ==
    lastOp = "start" => lastResult \in {"True", "False"}

\* C7: when the fallback thread started by a start_tftp_server() call fails
\* to bind, that call returned False and stored no in-process handle.
C7_BindFailureReported ==
    (lastOp = "start" /\ preHandle = None /\ thread = "bind_failed")
        => lastResult = "False" /\ tftp_process # python_thread

\* C8 as stated: start_tftp_server() returns False only after every
\* external candidate of the host OS and the fallback were each attempted.
C8_FailureOnlyAfterAllAttempted ==
    (lastOp = "start" /\ lastResult = "False")
        => EveryCandidateAttempted /\ Made("import")

\* C8 as amended: start_tftp_server() returns False only when either the
\* last candidate it attempted failed to spawn for a reason other than
\* "executable not found" (every candidate before it was not found; the
\* later candidates and the fallback are not attempted), or every external
\* candidate of the host OS was not found and the fallback was attempted
\* and failed.
C8_FailureAfterChainEnded ==
    (lastOp = "start" /\ lastResult = "False")
        => LET n == Len(lastCalls)
               last == lastCalls[n]
           IN  /\ n > 0
               /\ \/ /\ last.call = "Popen"
                     /\ last.out \notin {"ok", "FileNotFoundError"}
                     /\ \A i \in 1..(n - 1) :
                            lastCalls[i].call = "Popen"
                                => lastCalls[i].out = "FileNotFoundError"
                     /\ ~Made("import")
                  \/ /\ EveryCandidateNotFound
                     /\ last = Call("import", "tftpy", "ImportError")

C8_Witness ==
    /\ lastOp = "start"
    /\ lastResult = "False"
    /\ MadeCall("Popen", "dnsmasq", "OSError")
    /\ ~EveryCandidateAttempted

\* C9: test_tftp() returns True or False, never raises, and returns True
\* exactly when a reply arrived whose first two bytes are 0x00 0x03.
C9_ProbeSuccessIffDataOpcode ==
    lastOp = "test_tftp"
        => /\ lastResult \in {"True", "False"}
           /\ lastResult = "True"
                  <=> /\ net.outcome = "reply"
                      /\ Len(net.data) >= 2
                      /\ net.data[1] = 0
                      /\ net.data[2] = 3

C9_Witness ==
    /\ lastOp = "test_tftp"
    /\ net.outcome = "reply"
    /\ Len(net.data) = MaxReplyLen
    /\ Slice2(net.data) = DATA
    /\ lastResult = "True"

C11_StopSwallowsErrors ==
    (lastOp = "stop" /\ preHandle.kind = "Popen")
        => /\ lastResult = "None"
           /\ tftp_process = None
           /\ Made("terminate")

C11_Witness ==
    /\ lastOp = "stop"
    /\ preHandle.kind = "Popen"
    /\ MadeCall("terminate", "Popen", "OSError")
    /\ lastResult = "None"
    /\ tftp_process = None

\* C13: a start_tftp_server() call that is not a no-op leaves tftp_root a
\* directory holding test_file.txt and README.txt whenever setup_tftp_root
\* completes; whether or not it completes, a file of either name that
\* existed keeps its content, a file that did not exist is either still
\* missing or holds the sample text, and the other file of the directory
\* is untouched.  A no-op call leaves the file system alone.  (Stated of
\* every step that ends with start_tftp_server() as the last call made.)
C13_SetupFrame ==
    [][lastOp' = "start" =>
          /\ fs'.other = fs.other
          /\ fs.test_file # "absent" => fs'.test_file = fs.test_file
          /\ fs.README # "absent" => fs'.README = fs.README
          /\ fs'.test_file \in {fs.test_file, "sample_test"}
          /\ fs'.README \in {fs.README, "sample_readme"}
          /\ fs'.root \in {fs.root, "dir"}
          /\ (preHandle' = None /\ lastResult' # "raised")
                 => /\ fs'.root = "dir"
                    /\ fs'.test_file # "absent"
                    /\ fs'.README # "absent"
          /\ preHandle' # None => fs' = fs]_vars

C13_Witness ==
    /\ lastOp = "start"
    /\ preHandle = None
    /\ lastResult # "raised"
    /\ fs.test_file = "user"
    /\ fs.README = "sample_readme"
    /\ fs.other = "user"
    /\ MadeCall("write_text", "README.txt", "ok")
    /\ ~MadeCall("write_text", "test_file.txt", "ok")

\* C14: a stop with no live handle makes no call (no terminate, no wait),
\* returns normally and leaves the handle None.
C14_StopWithoutHandleIsNoOp ==
    (lastOp = "stop" /\ preHandle = None)
        => /\ lastCalls = <<>>
           /\ lastResult = "None"
           /\ tftp_process = None

C14_Witness ==
    /\ lastOp = "stop"
    /\ preHandle = None
    /\ tftp_process = None
    /\ Cardinality(Spawned) > 0

\* The spawn attempts of the last call, in the order they were made.
IsPopen(c) == c.call = "Popen"
PopenCalls == SelectSeq(lastCalls, IsPopen)

C17_ResultAgreesWithHandle ==
    (lastOp = "start" /\ lastResult \in {"True", "False"})
        => (lastResult = "True" <=> tftp_process # None)

C17_Witness ==
    /\ lastOp = "start"
    /\ lastResult = "False"
    /\ tftp_process = None
    /\ Made("import")

\* ------------------------------------------------------- claims of main

\* The last step of each flow, whose return value the flow returns.
final_step(flow) ==
    IF flow = "package" THEN "package"
    ELSE IF flow = "build_only" THEN "build"
    ELSE "electron"

\* A step that did not succeed: it raised, the check returned False, or a
\* command returned a code other than 0.
StepFailed(e) ==
    \/ e.res.kind = "raise"
    \/ e.step = "check" /\ e.res.code = 0
    \/ e.step # "check" /\ e.res.code # 0
AnyStepFailed == \E i \in 1..Len(steps) : StepFailed(steps[i])
Interrupted == pending.kind = "raise" /\ pending.exc = "KeyboardInterrupt"
ProbeRun == lastOp = "test_tftp"

\* Whether the start_tftp_server() call of main started an instance (main
\* runs on a fresh builder, so any process or thread stems from it).
ServiceStarted == Spawned # {} \/ thread # "none"

\* C12: when main was run with --with-tftp and the start failed, main has
\* gone into the selected flow (its first step was run) and returns what
\* the flow produced.
C12_FlowRunsAfterStartFailure ==
    (pc = "done" /\ lastOp = "start" /\ lastResult # "True")
        => /\ Len(steps) > 0
           /\ steps[1].step = first_step(selected_flow(args))
           /\ exitCode = main_returns(pending)

\* C15 as stated: main returns 0 on success, 130 on interruption and 1 on
\* every failure; no other value.
C15_ExitCodeZeroOne130 ==
    pc = "done"
        => exitCode = (IF Interrupted THEN 130
                       ELSE IF pending.kind = "raise" THEN 1
                       ELSE IF ProbeRun
                       THEN (IF lastResult = "True" THEN 0 ELSE 1)
                       ELSE IF AnyStepFailed THEN 1 ELSE 0)

\* C15 as amended: main returns 130 on interruption, 1 on any other
\* exception (missing package.json included), 0 or 1 for the probe, 0 when
\* every step of the flow succeeded, 1 when a step before the last one of
\* the flow failed, and the return code of the last command of the flow
\* (Electron run, packaging, the build of --build-only) when that failed.
C15_ExitCodePassesLastStep ==
    pc = "done"
        => exitCode =
               (IF Interrupted THEN 130
                ELSE IF pending.kind = "raise" THEN 1
                ELSE IF ProbeRun
                THEN (IF lastResult = "True" THEN 0 ELSE 1)
                ELSE IF ~AnyStepFailed THEN 0
                ELSE IF steps[Len(steps)].step = final_step(selected_flow(args))
                THEN steps[Len(steps)].res.code
                ELSE 1)

C15_Witness ==
    /\ pc = "done"
    /\ selected_flow(args) = "build_and_run"
    /\ Len(steps) = 4
    /\ steps[4].step = "electron"
    /\ steps[4].res = Ret(MaxRetCode)
    /\ exitCode = MaxRetCode

\* C18: main calls stop_tftp_server() at most once, and when it has
\* returned it has called it exactly once if its start_tftp_server() call
\* started the service (returned True), however the flow ended, and never
\* if the service was not requested or its start failed.
C18_StopExactlyOnceIffStarted ==
    /\ stopCalls <= 1
    /\ stopCalls = 1 => pc = "done" /\ Len(steps) > 0
    /\ pc \in StepNames \cup {"finally"} => (tftp_started <=> ServiceStarted)
    /\ pc = "done" => stopCalls = (IF ServiceStarted THEN 1 ELSE 0)
    /\ ~args.with_tftp \/ args.test_tftp => ~ServiceStarted

C18_Witness ==
    /\ pc = "done"
    /\ stopCalls = 1
    /\ Interrupted
    /\ exitCode = 130

\* The steps of build_and_run, in order.
BuildAndRunOrder == <<"check", "install", "build", "electron">>

\* C19 as stated: build_and_run runs check, install, build, Electron in
\* this order, a step runs only if every step before it succeeded (a
\* skipped step counts as returning 0), and a step that fails ends the
\* method with 1.
C19_FirstFailureReturnsOne ==
    selected_flow(args) = "build_and_run"
        => /\ Len(steps) <= Len(BuildAndRunOrder)
           /\ \A i \in 1..Len(steps) :
                  /\ steps[i].step = BuildAndRunOrder[i]
                  /\ i < Len(steps) => ~StepFailed(steps[i])
                  /\ ~steps[i].ran => steps[i].res = Ret(0)
                  /\ (StepFailed(steps[i]) /\ steps[i].res.kind = "return")
                         => pending = Ret(1)

\* C19 as amended: the same order and the same gating; the first of
\* check, install and build that reports failure ends the method with 1; a
\* failing Electron launch ends it with the return code of the launch; a
\* step that raises ends it with that exception; in no case does a later
\* step run.
C19_OrderAndGating ==
    selected_flow(args) = "build_and_run"
        => /\ Len(steps) <= Len(BuildAndRunOrder)
           /\ \A i \in 1..Len(steps) :
                  /\ steps[i].step = BuildAndRunOrder[i]
                  /\ i < Len(steps) => ~StepFailed(steps[i])
                  /\ ~steps[i].ran => steps[i].res = Ret(0)
                  /\ (StepFailed(steps[i]) /\ steps[i].res.kind = "return"
                          /\ steps[i].step # "electron")
                         => pending = Ret(1)
                  /\ steps[i].step = "electron" => pending = steps[i].res
                  /\ steps[i].res.kind = "raise" => pending = steps[i].res
                  /\ StepFailed(steps[i]) => pc \in {"finally", "done"}

C19_Witness ==
    /\ pc = "done"
    /\ selected_flow(args) = "build_and_run"
    /\ Len(steps) = 2
    /\ steps[2].step = "install"
    /\ steps[2].res = Ret(MaxRetCode)
    /\ exitCode = 1

====
